---- MODULE Spec2Model ----
(***************************************************************************)
(* Model of src/app/api/qa/route.ts: the question-answering route.         *)
(*                                                                         *)
(* The module-level state (session, modelLoading, the cache file) is       *)
(* shared by all request handlers of one Node.js process.  Handlers run on *)
(* one thread: a handler runs without interruption up to its next `await`, *)
(* continuations of settled promises run from the microtask queue (mq) in  *)
(* FIFO order, and a new event (an incoming request, a network event, the  *)
(* completion of a file operation or of InferenceSession.create) is only   *)
(* taken when the microtask queue is empty.                                *)
(***************************************************************************)
EXTENDS Integers, Sequences, FiniteSets, TLC

\* Number of POST requests of one process run.
NumRequests == 2
Requests == 1..NumRequests

\* `let session = null` / `let modelLoading = null`
NoSession == 0
NoPromise == 0

FileStates == {"absent", "partial", "complete"}

VARIABLES
    session,        \* module variable session: NoSession or a session handle
    modelLoading,   \* module variable modelLoading: NoPromise or a promise id
    file,           \* what is at MODEL_CACHE: absent, partial or complete
    dl,             \* one record per downloadModel() call (= promise id)
    unlinkPending,  \* an fs.unlink(MODEL_CACHE) has been issued, not yet done
    pc,             \* position of each request handler
    awaiting,       \* the promise a handler awaits in getSession
    waitq,          \* handlers awaiting a pending promise, in await order
    mq,             \* microtask queue: handlers whose await has settled
    creating,       \* the handle InferenceSession.create is building
    result,         \* the handle getSession returned to the handler
    alive,          \* FALSE once an unhandled 'error' event ended the process
    fetches,        \* number of https.get(MODEL_URL) issued
    creates,        \* number of InferenceSession.create invocations
    loadFailed,     \* some InferenceSession.create has rejected
    observed,       \* log of fs.existsSync(MODEL_CACHE) reads
    stage,          \* Tensor Builder: "input" before, "built" after it ran
    inputTokens,    \* POST: inputTokens, the result of tokenize(prompt)
    paddedTokens,   \* POST: paddedTokens
    attentionMask,  \* POST: the data of the attentionMask tensor
    startIdx,       \* POST: startIdx = inputTokens.length (line 183)
    vocabSize,      \* POST: vocabSize = Object.keys(getVocab()).length
    logits,         \* POST: logitsData, given by the parameters of LogitAt
    loopI,          \* POST: the counter i of the decode loop (line 187)
    outputTokens,   \* POST: outputTokens
    tokenPos,       \* POST: tokenPos of the latest scan, -1 before the first
    maxToken,       \* POST: maxToken after the latest scan
    question,       \* POST: the kind of `question` in the body, per request
    run,            \* POST: the state of the request's model.run call
    resp,           \* POST: the status of the response sent, 0 before
    answer,         \* POST: the answer field of a 200 response
    vocabData,      \* module variable vocabData: loaded (TRUE) or null
    getLog,         \* model_cached of the GET responses sent so far
    vocab,          \* the parsed vocab.json: a function from words to ids
    words,          \* the words of the text given to tokenize
    detok,          \* the string detokenize returned
    joined          \* history: the requests that awaited at line 57

\* The variables of the Tensor Builder, untouched by session acquisition.
tensorVars == <<stage, inputTokens, paddedTokens, attentionMask>>

\* The variables of the Decoder.
decodeVars == <<startIdx, vocabSize, logits, loopI, outputTokens, tokenPos,
                maxToken>>

\* The variables of the Tokenizer and the Answer Composer.
textVars == <<vocab, words, detok>>

\* The variables of the request-local computations of POST.
pureVars == <<tensorVars, decodeVars, textVars>>

\* The variables of session acquisition.
sessionVars == <<session, modelLoading, file, dl, unlinkPending, pc, awaiting,
                 waitq, mq, creating, result, alive, fetches, creates,
                 loadFailed, observed, joined>>

vars == <<session, modelLoading, file, dl, unlinkPending, pc, awaiting, waitq,
          mq, creating, result, alive, fetches, creates, loadFailed, observed,
          stage, inputTokens, paddedTokens, attentionMask,
          startIdx, vocabSize, logits, loopI, outputTokens, tokenPos,
          maxToken, question, run, resp, answer, vocabData, getLog,
          vocab, words, detok, joined>>

\* The variables of the POST and GET handlers around getSession.
routeVars == <<question, run, resp, answer, vocabData, getLog>>

----------------------------------------------------------------------------
\* Promises returned by downloadModel().

Promises == 1..Len(dl)

\* State of the promise returned by the p-th downloadModel() call.
Status(p) ==
    IF dl[p].phase \in {"hit", "finished"} THEN "resolved"
    ELSE IF dl[p].phase = "failed" THEN "rejected"
    ELSE "pending"

\* A cache check that always misses.
ExistsSyncNever == FALSE

\* A cache check that always hits.
ExistsSyncAlways == TRUE

\* fs.existsSync(MODEL_CACHE)
ExistsSync == file # "absent"

\* `if (session)`
HasSession == session # NoSession

\* A getSession that never looks at the in-flight reference.
IsLoadingNever == FALSE

\* `if (modelLoading)`
IsLoading == modelLoading # NoPromise

\* Handlers whose await on promise p is registered, in registration order.
WaitersOf(p) == SelectSeq(waitq, LAMBDA r : awaiting[r] = p)
OtherWaiters(p) == SelectSeq(waitq, LAMBDA r : awaiting[r] # p)

\* A macrotask (event) runs only when no microtask is queued.
EventLoopIdle == alive /\ mq = <<>>

----------------------------------------------------------------------------
\* No logits yet: every logit is 0.
NoLogits == [m |-> 0, c |-> 0, o |-> 0, spike |-> -1]

\* The Decoder before it is given an input.
DecodeIdle ==
    /\ startIdx = 0
    /\ vocabSize = 0
    /\ logits = NoLogits
    /\ loopI = 0
    /\ outputTokens = <<>>
    /\ tokenPos = -1
    /\ maxToken = 0

\* No request has arrived, nothing was answered, vocabData is null.
RouteIdle ==
    /\ question = [r \in Requests |-> "none"]
    /\ run = [r \in Requests |-> "none"]
    /\ resp = [r \in Requests |-> 0]
    /\ answer = [r \in Requests |-> "none"]
    /\ vocabData = FALSE
    /\ getLog = <<>>

\* The Tokenizer before it is given a vocabulary and a text.
TextIdle ==
    /\ vocab = <<>>
    /\ words = <<>>
    /\ detok = <<>>

\* State of a fresh process.  /tmp outlives a process, so the artifact may
\* already be cached by an earlier run.
Init ==
    /\ session = NoSession
    /\ modelLoading = NoPromise
    /\ file \in {"absent", "complete"}
    /\ dl = <<>>
    /\ unlinkPending = FALSE
    /\ pc = [r \in Requests |-> "idle"]
    /\ awaiting = [r \in Requests |-> NoPromise]
    /\ waitq = <<>>
    /\ mq = <<>>
    /\ creating = [r \in Requests |-> NoSession]
    /\ result = [r \in Requests |-> NoSession]
    /\ alive = TRUE
    /\ fetches = 0
    /\ creates = 0
    /\ loadFailed = FALSE
    /\ observed = {}
    /\ joined = {}
    /\ stage = "input"
    /\ inputTokens = <<>>
    /\ paddedTokens = <<>>
    /\ attentionMask = <<>>
    /\ DecodeIdle
    /\ RouteIdle
    /\ TextIdle

----------------------------------------------------------------------------
\* getSession, lines 62-63: `modelLoading = downloadModel(); await modelLoading;`
\* run by handler r, q being the microtask queue r leaves behind.
\* downloadModel() runs synchronously up to its return: on a cache hit the
\* promise is already resolved, otherwise the write stream is created (the
\* file is opened later, asynchronously) and the first request is issued.
DownloadModel(r, q) ==
    LET p == Len(dl) + 1 IN
    /\ observed' = observed \cup {[by |-> "downloadModel", saw |-> file]}
    /\ IF ExistsSync
       THEN /\ dl' = Append(dl, [phase |-> "hit", opened |-> FALSE])
            /\ fetches' = fetches
            /\ mq' = Append(q, r)
            /\ waitq' = waitq
       ELSE /\ dl' = Append(dl, [phase |-> "first", opened |-> FALSE])
            /\ fetches' = fetches + 1
            /\ mq' = q
            /\ waitq' = Append(waitq, r)
    /\ modelLoading' = p
    /\ awaiting' = [awaiting EXCEPT ![r] = p]
    /\ pc' = [pc EXCEPT ![r] = "await63"]
    /\ UNCHANGED <<session, file, unlinkPending, creating, result, alive,
                   creates, loadFailed>>
    /\ UNCHANGED joined

\* getSession, line 57: `await modelLoading` on the promise another call set.
AwaitLoading(r, q) ==
    /\ awaiting' = [awaiting EXCEPT ![r] = modelLoading]
    /\ pc' = [pc EXCEPT ![r] = "await57"]
    /\ IF Status(modelLoading) = "pending"
       THEN mq' = q /\ waitq' = Append(waitq, r)
       ELSE mq' = Append(q, r) /\ waitq' = waitq
    /\ UNCHANGED <<session, modelLoading, file, dl, unlinkPending, creating,
                   result, alive, fetches, creates, loadFailed, observed>>
    /\ joined' = joined \cup {r}

\* `return session;` (lines 53 and 58)
ReturnSession(r, q) ==
    /\ pc' = [pc EXCEPT ![r] = "returned"]
    /\ result' = [result EXCEPT ![r] = session]
    /\ awaiting' = [awaiting EXCEPT ![r] = NoPromise]
    /\ mq' = q
    /\ UNCHANGED <<session, modelLoading, file, dl, unlinkPending, waitq,
                   creating, alive, fetches, creates, loadFailed, observed>>
    /\ UNCHANGED joined

\* The await rethrows the rejection of the promise: getSession rejects.
Throw(r, q) ==
    /\ pc' = [pc EXCEPT ![r] = "threw"]
    /\ awaiting' = [awaiting EXCEPT ![r] = NoPromise]
    /\ mq' = q
    /\ UNCHANGED <<session, modelLoading, file, dl, unlinkPending, waitq,
                   creating, result, alive, fetches, creates, loadFailed,
                   observed>>
    /\ UNCHANGED joined

\* getSession, lines 64-67: `modelLoading = null;` and the invocation of
\* InferenceSession.create, whose promise the handler then awaits.
StartCreate(r, q) ==
    /\ modelLoading' = NoPromise
    /\ creates' = creates + 1
    /\ creating' = [creating EXCEPT ![r] = creates + 1]
    /\ awaiting' = [awaiting EXCEPT ![r] = NoPromise]
    /\ pc' = [pc EXCEPT ![r] = "await67"]
    /\ mq' = q
    /\ UNCHANGED <<session, file, dl, unlinkPending, waitq, result, alive,
                   fetches, loadFailed, observed>>
    /\ UNCHANGED joined

\* The kinds of `question` in a request body: absent, not a string, the
\* empty string, a non-empty string.
QuestionKinds == {"missing", "notString", "empty", "text"}

\* A handler without the check of line 124.
IsValidQuestionAlways(k) == TRUE

\* `!question`: undefined and the empty string are falsy.
IsFalsy(k) == k \in {"missing", "empty"}
\* `typeof question === 'string'`
IsString(k) == k \in {"empty", "text"}

\* Line 124, negated: `!question || typeof question !== 'string'` is false.
IsValidQuestion(k) == ~(IsFalsy(k) \/ ~IsString(k))

\* A POST with a valid question reaches `await getSession()` (line 134);
\* getSession runs from line 53 to its first await or return.
GetSession(r) ==
    /\ UNCHANGED pureVars
    /\ EventLoopIdle
    /\ pc[r] = "idle"
    /\ question[r] = "none"
    /\ \E k \in QuestionKinds :
         /\ IsValidQuestion(k)
         /\ question' = [question EXCEPT ![r] = k]
    /\ UNCHANGED <<run, resp, answer, vocabData, getLog>>
    /\ IF HasSession THEN ReturnSession(r, mq)
       ELSE IF IsLoading THEN AwaitLoading(r, mq)
       ELSE DownloadModel(r, mq)

\* Continuation of the handler at the head of the microtask queue.
Resume ==
    /\ UNCHANGED <<pureVars, routeVars>>
    /\ alive
    /\ mq # <<>>
    /\ LET r == Head(mq)
           q == Tail(mq)
       IN  IF Status(awaiting[r]) = "rejected" THEN Throw(r, q)
           ELSE IF pc[r] = "await57"
                THEN IF HasSession THEN ReturnSession(r, q)
                     ELSE DownloadModel(r, q)
                ELSE StartCreate(r, q)

\* InferenceSession.create settles (line 67): on success the handle is
\* assigned to session and returned, on failure getSession rejects.
CreateSettled(r, ok) ==
    /\ UNCHANGED <<pureVars, routeVars>>
    /\ EventLoopIdle
    /\ pc[r] = "await67"
    /\ IF ok
       THEN /\ session' = creating[r]
            /\ result' = [result EXCEPT ![r] = creating[r]]
            /\ pc' = [pc EXCEPT ![r] = "returned"]
            /\ UNCHANGED loadFailed
       ELSE /\ pc' = [pc EXCEPT ![r] = "threw"]
            /\ loadFailed' = TRUE
            /\ UNCHANGED <<session, result>>
    /\ UNCHANGED <<modelLoading, file, dl, unlinkPending, awaiting, waitq, mq,
                   creating, alive, fetches, creates, observed, joined>>

\* Line 67 settles either way.
CreateDone(r) == \E ok \in BOOLEAN : CreateSettled(r, ok)

----------------------------------------------------------------------------
\* Events of a download in flight (downloadModel, lines 21-48).

SetPhase(p, ph) == dl' = [dl EXCEPT ![p].phase = ph]

\* A promise whose settling resumes nobody.
SettleNobody(p) ==
    /\ mq' = mq
    /\ waitq' = waitq

\* resolve() / reject(): the handlers awaiting p are queued as microtasks.
Settle(p) ==
    /\ mq' = mq \o WaitersOf(p)
    /\ waitq' = OtherWaiters(p)

\* fs.createWriteStream(MODEL_CACHE) opens the file (flag 'w': created or
\* truncated) some time after the call at line 23.
StreamOpen(p) ==
    /\ UNCHANGED <<pureVars, routeVars>>
    /\ EventLoopIdle
    /\ dl[p].phase # "hit"
    /\ ~dl[p].opened
    /\ dl' = [dl EXCEPT ![p].opened = TRUE]
    /\ file' = "partial"
    /\ UNCHANGED <<session, modelLoading, unlinkPending, pc, awaiting, waitq,
                   mq, creating, result, alive, fetches, creates, loadFailed,
                   observed>>
    /\ UNCHANGED joined

\* The response to the first request arrives (line 25): a 301/302 starts the
\* second request (line 28), any other status is piped to the file (line 37).
Response(p) ==
    /\ UNCHANGED <<pureVars, routeVars>>
    /\ EventLoopIdle
    /\ dl[p].phase = "first"
    /\ \E redirect \in BOOLEAN :
         SetPhase(p, IF redirect THEN "redirect" ELSE "bodyDirect")
    /\ UNCHANGED <<session, modelLoading, file, unlinkPending, pc, awaiting,
                   waitq, mq, creating, result, alive, fetches, creates,
                   loadFailed, observed>>
    /\ UNCHANGED joined

\* The response to the redirect request arrives and is piped (lines 28-29).
RedirectResponse(p) ==
    /\ UNCHANGED <<pureVars, routeVars>>
    /\ EventLoopIdle
    /\ dl[p].phase = "redirect"
    /\ SetPhase(p, "bodyRedirect")
    /\ UNCHANGED <<session, modelLoading, file, unlinkPending, pc, awaiting,
                   waitq, mq, creating, result, alive, fetches, creates,
                   loadFailed, observed>>
    /\ UNCHANGED joined

\* 'finish' of the write stream (lines 30-34 and 38-42): resolve().
Finish(p) ==
    /\ UNCHANGED <<pureVars, routeVars>>
    /\ EventLoopIdle
    /\ dl[p].phase \in {"bodyDirect", "bodyRedirect"}
    /\ dl[p].opened
    /\ SetPhase(p, "finished")
    /\ file' = "complete"
    /\ Settle(p)
    /\ UNCHANGED <<session, modelLoading, unlinkPending, pc, awaiting,
                   creating, result, alive, fetches, creates, loadFailed,
                   observed>>
    /\ UNCHANGED joined

\* 'error' on the first request (lines 44-47), before or while its body is
\* piped: the asynchronous fs.unlink is issued (it completes in UnlinkDone)
\* and the promise is rejected.
ErrorFirst(p) ==
    /\ UNCHANGED <<pureVars, routeVars>>
    /\ EventLoopIdle
    /\ dl[p].phase \in {"first", "bodyDirect"}
    /\ SetPhase(p, "failed")
    /\ unlinkPending' = TRUE
    /\ Settle(p)
    /\ UNCHANGED <<session, modelLoading, file, pc, awaiting, creating,
                   result, alive, fetches, creates, loadFailed, observed>>
    /\ UNCHANGED joined

\* 'error' on the redirect request (line 35): `.on('error', reject)`.
ErrorRedirect(p) ==
    /\ UNCHANGED <<pureVars, routeVars>>
    /\ EventLoopIdle
    /\ dl[p].phase \in {"redirect", "bodyRedirect"}
    /\ SetPhase(p, "failed")
    /\ Settle(p)
    /\ UNCHANGED <<session, modelLoading, file, unlinkPending, pc, awaiting,
                   creating, result, alive, fetches, creates, loadFailed,
                   observed>>
    /\ UNCHANGED joined

\* The body ends early without an 'error' on the request (the response is
\* aborted, or the write stream fails).  Neither the response nor the write
\* stream has an 'error' listener (lines 29, 37): either nothing settles the
\* promise, or the unhandled 'error' event of the write stream ends the
\* process.
BodyLost(p) ==
    /\ UNCHANGED <<pureVars, routeVars>>
    /\ EventLoopIdle
    /\ dl[p].phase \in {"bodyDirect", "bodyRedirect"}
    /\ SetPhase(p, "stalled")
    /\ \E crash \in BOOLEAN : alive' = ~crash
    /\ UNCHANGED <<session, modelLoading, file, unlinkPending, pc, awaiting,
                   waitq, mq, creating, result, fetches, creates, loadFailed,
                   observed>>
    /\ UNCHANGED joined

\* The unlink issued at line 45 completes.
UnlinkDone ==
    /\ UNCHANGED <<pureVars, routeVars>>
    /\ EventLoopIdle
    /\ unlinkPending
    /\ unlinkPending' = FALSE
    /\ file' = "absent"
    /\ UNCHANGED <<session, modelLoading, dl, pc, awaiting, waitq, mq,
                   creating, result, alive, fetches, creates, loadFailed,
                   observed>>
    /\ UNCHANGED joined

----------------------------------------------------------------------------
\* Number of GET requests of one process run.
MaxGets == 2

\* A status handler that also loads the vocabulary.
GETLoadingVocab ==
    /\ UNCHANGED pureVars
    /\ EventLoopIdle
    /\ Len(getLog) < MaxGets
    /\ observed' = observed \cup {[by |-> "GET", saw |-> file]}
    /\ getLog' = Append(getLog, ExistsSync)
    /\ vocabData' = TRUE
    /\ UNCHANGED <<question, run, resp, answer>>
    /\ UNCHANGED <<session, modelLoading, file, dl, unlinkPending, pc,
                   awaiting, waitq, mq, creating, result, alive, fetches,
                   creates, loadFailed>>
    /\ UNCHANGED joined

\* GET /api/qa (lines 236-240): reads whether the cache file exists and
\* answers with model_cached.
GET ==
    /\ UNCHANGED pureVars
    /\ EventLoopIdle
    /\ Len(getLog) < MaxGets
    /\ observed' = observed \cup {[by |-> "GET", saw |-> file]}
    /\ getLog' = Append(getLog, ExistsSync)
    /\ UNCHANGED <<question, run, resp, answer, vocabData>>
    /\ UNCHANGED <<session, modelLoading, file, dl, unlinkPending, pc,
                   awaiting, waitq, mq, creating, result, alive, fetches,
                   creates, loadFailed>>
    /\ UNCHANGED joined

----------------------------------------------------------------------------
\* POST /api/qa around getSession (lines 118-233).

\* Lines 124-128: a missing, empty or non-string question is answered with
\* 400 before getSession is called.
PostInvalid(r) ==
    /\ UNCHANGED pureVars
    /\ EventLoopIdle
    /\ pc[r] = "idle"
    /\ question[r] = "none"
    /\ \E k \in QuestionKinds :
         /\ ~IsValidQuestion(k)
         /\ question' = [question EXCEPT ![r] = k]
    /\ resp' = [resp EXCEPT ![r] = 400]
    /\ UNCHANGED <<run, answer, vocabData, getLog>>
    /\ UNCHANGED sessionVars
    /\ UNCHANGED joined

\* Lines 136-173, after getSession returned: tokenize loads the vocabulary
\* on first use (getVocab, lines 77-83; reading or parsing it may throw,
\* which the catch turns into a 500), the tensors are built and model.run
\* is called and awaited.
PostRun(r) ==
    /\ UNCHANGED pureVars
    /\ EventLoopIdle
    /\ pc[r] = "returned"
    /\ run[r] = "none"
    /\ resp[r] = 0
    /\ \E vocabOk \in BOOLEAN :
         IF vocabData \/ vocabOk
         THEN /\ vocabData' = TRUE
              /\ run' = [run EXCEPT ![r] = "pending"]
              /\ UNCHANGED resp
         ELSE /\ resp' = [resp EXCEPT ![r] = 500]
              /\ UNCHANGED <<vocabData, run>>
    /\ UNCHANGED <<question, answer, getLog>>
    /\ UNCHANGED sessionVars
    /\ UNCHANGED joined

\* model.run settles (line 170).  On success the output is decoded and
\* detokenized and the 200 response carries the answer, or the fallback text
\* when the answer is empty (line 216); on failure the catch answers 500.
RunDone(r) ==
    /\ UNCHANGED pureVars
    /\ EventLoopIdle
    /\ run[r] = "pending"
    /\ \E ok \in BOOLEAN, empty \in BOOLEAN :
         IF ok
         THEN /\ run' = [run EXCEPT ![r] = "ok"]
              /\ resp' = [resp EXCEPT ![r] = 200]
              /\ answer' = [answer EXCEPT ![r] =
                              IF empty THEN "fallback" ELSE "text"]
         ELSE /\ ~empty
              /\ run' = [run EXCEPT ![r] = "failed"]
              /\ resp' = [resp EXCEPT ![r] = 500]
              /\ UNCHANGED answer
    /\ UNCHANGED <<question, vocabData, getLog>>
    /\ UNCHANGED sessionVars
    /\ UNCHANGED joined

\* Lines 226-232: getSession rejected, the catch answers 500.
PostCatch(r) ==
    /\ UNCHANGED pureVars
    /\ EventLoopIdle
    /\ pc[r] = "threw"
    /\ resp[r] = 0
    /\ resp' = [resp EXCEPT ![r] = 500]
    /\ UNCHANGED <<question, run, answer, vocabData, getLog>>
    /\ UNCHANGED sessionVars
    /\ UNCHANGED joined

----------------------------------------------------------------------------
Next ==
    \/ \E r \in Requests : GetSession(r)
    \/ Resume
    \/ \E r \in Requests : CreateDone(r)
    \/ \E p \in Promises : StreamOpen(p)
    \/ \E p \in Promises : Response(p)
    \/ \E p \in Promises : RedirectResponse(p)
    \/ \E p \in Promises : Finish(p)
    \/ \E p \in Promises : ErrorFirst(p)
    \/ \E p \in Promises : ErrorRedirect(p)
    \/ \E p \in Promises : BodyLost(p)
    \/ UnlinkDone
    \/ GET
    \/ \E r \in Requests : PostInvalid(r)
    \/ \E r \in Requests : PostRun(r)
    \/ \E r \in Requests : RunDone(r)
    \/ \E r \in Requests : PostCatch(r)

Spec == Init /\ [][Next]_vars

\* The runs in which every fetch completes and every construction succeeds:
\* no 'error' event, no lost body, InferenceSession.create resolves.
NextLive ==
    \/ \E r \in Requests : GetSession(r)
    \/ Resume
    \/ \E r \in Requests : CreateSettled(r, TRUE)
    \/ \E p \in Promises : StreamOpen(p)
    \/ \E p \in Promises : Response(p)
    \/ \E p \in Promises : RedirectResponse(p)
    \/ \E p \in Promises : Finish(p)
    \/ GET

\* Fair scheduling: a queued continuation is eventually run, and the file
\* open, the responses, the end of the body and the construction eventually
\* happen.  Nothing obliges a request to arrive.
SpecLive ==
    /\ Init
    /\ [][NextLive]_vars
    /\ WF_vars(Resume)
    /\ WF_vars(\E r \in Requests : CreateSettled(r, TRUE))
    /\ WF_vars(\E p \in Promises : StreamOpen(p))
    /\ WF_vars(\E p \in Promises : Response(p))
    /\ WF_vars(\E p \in Promises : RedirectResponse(p))
    /\ WF_vars(\E p \in Promises : Finish(p))

TypeOK ==
    /\ session \in 0..NumRequests
    /\ modelLoading \in 0..Len(dl)
    /\ file \in FileStates
    /\ Len(dl) <= NumRequests
    /\ pc \in [Requests -> {"idle", "await57", "await63", "await67",
                            "returned", "threw"}]
    /\ fetches \in 0..NumRequests
    /\ creates \in 0..NumRequests
----------------------------------------------------------------------------
\* Tensor Builder (POST, lines 141-164).

\* `const maxLength = 512;`
maxLength == 512
\* The pad id pushed at line 149 and tested at line 162.
PadId == 0

\* How far beyond maxLength the enumerated inputs go.
MaxOver == 2
\* Largest token id of the enumerated inputs.
MaxTokenId == 3
TokenIds == 0..MaxTokenId

\* `while (paddedTokens.length < maxLength) paddedTokens.push(0);`
\* one push per missing position, none when s is already long enough.
PushPad(s) == s \o [i \in 1..(maxLength - Len(s)) |-> PadId]

\* A builder that pads but never truncates.
PadOnly(tokens) == PushPad(tokens)

\* Lines 143-151: copy, then truncate (`paddedTokens.length = maxLength`) or pad.
PadTokens(tokens) ==
    IF Len(tokens) > maxLength
    THEN SubSeq(tokens, 1, maxLength)
    ELSE PushPad(tokens)

\* Line 162: `paddedTokens.map(t => t === 0 ? BigInt(0) : BigInt(1))`
MaskOf(padded) ==
    [i \in 1..Len(padded) |-> IF padded[i] = PadId THEN 0 ELSE 1]

\* Token sequences of length n whose i-th id is (a*i + b) mod the id range:
\* constant sequences (also all pad ids) and sequences cycling over the ids.
TokenInput(n, a, b) == [i \in 1..n |-> (a * i + b) % (MaxTokenId + 1)]

InitTensor ==
    /\ session = NoSession
    /\ modelLoading = NoPromise
    /\ file = "absent"
    /\ dl = <<>>
    /\ unlinkPending = FALSE
    /\ pc = [r \in Requests |-> "idle"]
    /\ awaiting = [r \in Requests |-> NoPromise]
    /\ waitq = <<>>
    /\ mq = <<>>
    /\ creating = [r \in Requests |-> NoSession]
    /\ result = [r \in Requests |-> NoSession]
    /\ alive = TRUE
    /\ fetches = 0
    /\ creates = 0
    /\ loadFailed = FALSE
    /\ observed = {}
    /\ joined = {}
    /\ stage = "input"
    /\ \E n \in 0..(maxLength + MaxOver), a \in 0..1, b \in TokenIds :
         inputTokens = TokenInput(n, a, b)
    /\ paddedTokens = <<>>
    /\ attentionMask = <<>>
    /\ DecodeIdle
    /\ RouteIdle
    /\ TextIdle

\* Lines 143-164: the padded token sequence and its attention mask.
BuildTensors ==
    /\ stage = "input"
    /\ stage' = "built"
    /\ paddedTokens' = PadTokens(inputTokens)
    /\ attentionMask' = MaskOf(PadTokens(inputTokens))
    /\ UNCHANGED <<session, modelLoading, file, dl, unlinkPending, pc,
                   awaiting, waitq, mq, creating, result, alive, fetches,
                   creates, loadFailed, observed, joined, inputTokens>>
    /\ UNCHANGED <<decodeVars, routeVars, textVars>>

NextTensor == BuildTensors

SpecTensor == InitTensor /\ [][NextTensor]_vars
----------------------------------------------------------------------------
\* Decoder (POST, lines 178-205).

\* `const maxNewTokens = 100;`
maxNewTokens == 100
\* `Math.min(vocabSize, 10000)`
ScanCap == 10000
\* `if (maxToken === 0 || maxToken === 2) break;`
UnkId == 0
EosId == 2

\* Logits take the values 0..LogitRange, LogitRange only at the spike.
LogitRange == 3
\* Largest vocabulary size of the small enumerated vocabularies.
MaxVocab == 4

Min(a, b) == IF a < b THEN a ELSE b
Max(a, b) == IF a > b THEN a ELSE b

\* logitsData[tokenPos * vocabSize + t] for the logits given by g: the value
\* (m*t + c*pos + o) mod LogitRange, and LogitRange at the id g.spike (if any).
LogitAt(g, pos, t) ==
    IF t = g.spike THEN LogitRange
    ELSE (g.m * t + g.c * pos + g.o) % LogitRange

\* A scan over the whole vocabulary.
ScanLimitUncapped(v) == v

\* Line 195: the scan runs over t < Math.min(vocabSize, 10000).
ScanLimit(v) == Min(v, ScanCap)

\* Lines 195-201 over the ids lo..hi-1: the scan in ascending id order keeps
\* the first strictly greater value, so it ends on the lowest id holding the
\* maximum.  Evaluated by halves: the upper half wins only with a strictly
\* greater value.
RECURSIVE FirstMax(_, _, _, _)
FirstMax(g, pos, lo, hi) ==
    IF hi - lo <= 1 THEN lo
    ELSE LET mid == (lo + hi) \div 2
             l == FirstMax(g, pos, lo, mid)
             r == FirstMax(g, pos, mid, hi)
         IN  IF LogitAt(g, pos, r) > LogitAt(g, pos, l) THEN r ELSE l

\* Lines 192-201: maxToken after the scan of position pos; it stays 0 when no
\* id is scanned (maxProb starts at -Infinity, below every logit).
ArgMax(g, pos, v) ==
    IF ScanLimit(v) <= 0 THEN 0 ELSE FirstMax(g, pos, 0, ScanLimit(v))

\* A length bound that lets position maxLength through.
AtLengthBoundLate(pos) == pos > maxLength

\* Line 189: `if (tokenPos >= maxLength) break;`
AtLengthBound(pos) == pos >= maxLength

\* A stop test that forgets the end-of-sequence id.
IsStopTokenUnkOnly(t) == t = UnkId

\* Line 203: `maxToken === 0 || maxToken === 2`
IsStopToken(t) == t = UnkId \/ t = EosId

\* The enumerated start positions: around 0, around maxLength - maxNewTokens
\* and around maxLength (startIdx is the untruncated input length).
StartPositions ==
    (0..MaxOver)
      \cup ((maxLength - maxNewTokens - MaxOver)..(maxLength - maxNewTokens + MaxOver))
      \cup ((maxLength - MaxOver)..(maxLength + MaxOver))

\* The enumerated logits.
LogitInputs ==
    [m : 0..1, c : 0..(LogitRange - 1), o : 0..1,
     spike : {-1, 1, EosId, MaxVocab - 1, ScanCap}]

\* The Decoder's inputs: small vocabularies at every start position, and
\* vocabularies larger than the scan cap at the last positions.
InitDecode ==
    /\ session = NoSession
    /\ modelLoading = NoPromise
    /\ file = "absent"
    /\ dl = <<>>
    /\ unlinkPending = FALSE
    /\ pc = [r \in Requests |-> "idle"]
    /\ awaiting = [r \in Requests |-> NoPromise]
    /\ waitq = <<>>
    /\ mq = <<>>
    /\ creating = [r \in Requests |-> NoSession]
    /\ result = [r \in Requests |-> NoSession]
    /\ alive = TRUE
    /\ fetches = 0
    /\ creates = 0
    /\ loadFailed = FALSE
    /\ observed = {}
    /\ joined = {}
    /\ stage = "decoding"
    /\ inputTokens = <<>>
    /\ paddedTokens = <<>>
    /\ attentionMask = <<>>
    /\ logits \in LogitInputs
    /\ \/ startIdx \in StartPositions /\ vocabSize \in 1..MaxVocab
       \/ /\ startIdx \in (maxLength - 2)..(maxLength - 1)
          /\ vocabSize \in (ScanCap + 1)..(ScanCap + 2)
          /\ logits.o = 0
    /\ loopI = 0
    /\ outputTokens = <<>>
    /\ tokenPos = -1
    /\ maxToken = 0
    /\ RouteIdle
    /\ TextIdle

\* One pass of the loop at lines 187-205: the loop test, the length bound,
\* the scan of position startIdx + i (i = loopI), the stop test and the push.
DecodeStep ==
    /\ stage = "decoding"
    /\ IF loopI >= maxNewTokens
       THEN stage' = "decoded" /\ UNCHANGED <<loopI, outputTokens, tokenPos, maxToken>>
       ELSE IF AtLengthBound(startIdx + loopI)
       THEN stage' = "decoded" /\ UNCHANGED <<loopI, outputTokens, tokenPos, maxToken>>
       ELSE /\ tokenPos' = startIdx + loopI
            /\ maxToken' = ArgMax(logits, startIdx + loopI, vocabSize)
            /\ IF IsStopToken(maxToken')
               THEN stage' = "decoded" /\ UNCHANGED <<loopI, outputTokens>>
               ELSE /\ outputTokens' = Append(outputTokens, maxToken')
                    /\ loopI' = loopI + 1
                    /\ UNCHANGED stage
    /\ UNCHANGED <<startIdx, vocabSize, logits, inputTokens, paddedTokens,
                   attentionMask>>
    /\ UNCHANGED <<sessionVars, routeVars, textVars>>

NextDecode == DecodeStep

SpecDecode == InitDecode /\ [][NextDecode]_vars

----------------------------------------------------------------------------
\* Tokenizer and Answer Composer (tokenize, lines 86-99; detokenize, lines
\* 102-115).  A string is a sequence of characters.

\* Largest number of words in the vocabulary and in the text.
MaxVocabWords == 2
MaxWords == 2

\* Characters of the enumerated texts: lower-case word characters, an
\* upper-case letter, a listed diacritic letter, punctuation.
LowerWordChars == {"a", "s"}
UpperWordChars == {"A"}
Diacritics == {"á"}
Whitespace == {" "}

\* String.prototype.toLowerCase on one character.
ToLower(ch) ==
    IF ch = "A" THEN "a" ELSE IF ch = "Á" THEN "á" ELSE ch

\* A pattern without the diacritic letters: /[^\w\s]/g.
IsKeptAscii(ch) ==
    ch \in LowerWordChars \cup UpperWordChars \cup Whitespace

\* Line 90: the characters /[^\w\sáčďéěíňóřšťúůýž]/g leaves in place.
IsKept(ch) ==
    ch \in LowerWordChars \cup UpperWordChars \cup Whitespace \cup Diacritics

\* Lines 89-90: toLowerCase, then the non-kept characters are removed.
Normalize(str) ==
    SelectSeq([k \in 1..Len(str) |-> ToLower(str[k])], IsKept)

\* The first fragment of str up to the first whitespace character.
RECURSIVE FirstWord(_)
FirstWord(str) ==
    IF str = <<>> \/ Head(str) \in Whitespace THEN <<>>
    ELSE <<Head(str)>> \o FirstWord(Tail(str))

\* Lines 91-92: `.split(/\s+/).filter(w => w)`: the non-empty fragments
\* between runs of whitespace, in order.
RECURSIVE SplitWords(_)
SplitWords(str) ==
    IF str = <<>> THEN <<>>
    ELSE IF Head(str) \in Whitespace THEN SplitWords(Tail(str))
    ELSE LET w == FirstWord(str)
         IN  <<w>> \o SplitWords(SubSeq(str, Len(w) + 1, Len(str)))

\* Line 96: `vocab[word] ?? 0`
Lookup(v, w) == IF w \in DOMAIN v THEN v[w] ELSE UnkId

\* tokenize (lines 86-99)
Tokenize(str, v) ==
    LET ws == SplitWords(Normalize(str))
    IN  [k \in 1..Len(ws) |-> Lookup(v, ws[k])]

\* Lines 104-108 and 111: reverseVocab[id]; the empty string stands for
\* undefined.  With unique ids the order of Object.entries does not matter.
ReverseLookup(v, id) ==
    IF \E w \in DOMAIN v : v[w] = id
    THEN CHOOSE w \in DOMAIN v : v[w] = id
    ELSE <<>>

\* Line 112: the literal tokens detokenize drops.
StructuralWords ==
    { <<"<", "u", "n", "k", ">">>, <<"<", "p", "a", "d", ">">>,
      <<"<", "s", ">">>, <<"<", "/", "s", ">">> }

\* Line 112: `w && !['<unk>', '<pad>', '<s>', '</s>'].includes(w)`
IsAnswerWord(w) == w # <<>> /\ w \notin StructuralWords

\* Array.prototype.join(' ')
RECURSIVE Join(_)
Join(ws) ==
    IF ws = <<>> THEN <<>>
    ELSE IF Len(ws) = 1 THEN Head(ws)
    ELSE Head(ws) \o <<" ">> \o Join(Tail(ws))

\* String.prototype.trim
RECURSIVE TrimLeft(_)
TrimLeft(str) ==
    IF str # <<>> /\ Head(str) \in Whitespace THEN TrimLeft(Tail(str)) ELSE str
RECURSIVE TrimRight(_)
TrimRight(str) ==
    IF str # <<>> /\ str[Len(str)] \in Whitespace
    THEN TrimRight(SubSeq(str, 1, Len(str) - 1)) ELSE str
Trim(str) == TrimRight(TrimLeft(str))

\* detokenize (lines 102-115)
Detokenize(ids, v) ==
    Trim(Join(SelectSeq([k \in 1..Len(ids) |-> ReverseLookup(v, ids[k])],
                        IsAnswerWord)))

\* The words a vocabulary is drawn from: plain and accented lower-case
\* words, words with an upper-case letter, words with punctuation, and a
\* structural token.
CandidateWords ==
    { <<"a">>, <<"s">>, <<"a", "s">>, <<"á">>, <<"A">>, <<"Á", "s">>,
      <<"a", "-">>, <<"-">>, <<"<", "s", ">">> }

\* The enumerated vocabularies: up to MaxVocabWords words with unique ids.
Vocabularies ==
    UNION { { v \in [ws -> TokenIds] :
                \A w1, w2 \in ws : w1 # w2 => v[w1] # v[w2] }
            : ws \in { x \in SUBSET CandidateWords :
                          Cardinality(x) \in 1..MaxVocabWords } }

\* The enumerated inputs: a vocabulary and up to MaxWords of its words, none
\* of them a structural token.
InitText ==
    /\ session = NoSession
    /\ modelLoading = NoPromise
    /\ file = "absent"
    /\ dl = <<>>
    /\ unlinkPending = FALSE
    /\ pc = [r \in Requests |-> "idle"]
    /\ awaiting = [r \in Requests |-> NoPromise]
    /\ waitq = <<>>
    /\ mq = <<>>
    /\ creating = [r \in Requests |-> NoSession]
    /\ result = [r \in Requests |-> NoSession]
    /\ alive = TRUE
    /\ fetches = 0
    /\ creates = 0
    /\ loadFailed = FALSE
    /\ observed = {}
    /\ joined = {}
    /\ stage = "text"
    /\ inputTokens = <<>>
    /\ paddedTokens = <<>>
    /\ attentionMask = <<>>
    /\ DecodeIdle
    /\ RouteIdle
    /\ vocab \in Vocabularies
    /\ \E n \in 0..MaxWords :
         words \in [1..n -> (DOMAIN vocab) \ StructuralWords]
    /\ detok = <<>>

\* tokenize applied to the words joined by single spaces.
TokenizeText ==
    /\ stage = "text"
    /\ stage' = "tokenized"
    /\ inputTokens' = Tokenize(Join(words), vocab)
    /\ UNCHANGED <<paddedTokens, attentionMask, vocab, words, detok>>
    /\ UNCHANGED <<sessionVars, decodeVars, routeVars>>

\* detokenize applied to the token ids.
DetokenizeTokens ==
    /\ stage = "tokenized"
    /\ stage' = "detokenized"
    /\ detok' = Detokenize(inputTokens, vocab)
    /\ UNCHANGED <<inputTokens, paddedTokens, attentionMask, vocab, words>>
    /\ UNCHANGED <<sessionVars, decodeVars, routeVars>>

NextText == TokenizeText \/ DetokenizeTokens

SpecText == InitText /\ [][NextText]_vars

----------------------------------------------------------------------------
\* Properties of session acquisition.

\* Some download or some session load has failed.
AnyFailure ==
    \/ loadFailed
    \/ \E p \in Promises : dl[p].phase \in {"failed", "stalled"}

\* No getSession call is in progress.
Quiescent == \A r \in Requests : pc[r] \in {"idle", "returned", "threw"}

\* C1: when the artifact was fetched (it was not cached) and neither the
\* download nor any load failed, InferenceSession.create is invoked at most
\* once over the whole run.
C1_SingleConstruction ==
    (fetches = 1 /\ ~AnyFailure) => creates <= 1

\* C2: there is exactly one network fetch if some downloadModel call found no
\* cached artifact and none otherwise, at most one download promise is
\* pending, and a caller that waits at line 57 on a pending promise waits on
\* the in-flight operation modelLoading refers to.
C2_SingleFetch ==
    /\ fetches = IF [by |-> "downloadModel", saw |-> "absent"] \in observed
                 THEN 1 ELSE 0
    /\ Cardinality({p \in Promises : Status(p) = "pending"}) <= 1
    /\ \A r \in Requests :
         (pc[r] = "await57" /\ Status(awaiting[r]) = "pending")
            => awaiting[r] = modelLoading

\* Two callers wait on the same pending download, one fetch was issued.
C2_Witness ==
    /\ fetches = 1
    /\ \E r1, r2 \in Requests :
         /\ pc[r1] = "await63"
         /\ pc[r2] = "await57"
         /\ awaiting[r1] = awaiting[r2]
         /\ Status(awaiting[r1]) = "pending"

\* C3: any two getSession calls that returned, returned the same handle.
C3_SameSession ==
    \A r1, r2 \in Requests :
        (pc[r1] = "returned" /\ pc[r2] = "returned") => result[r1] = result[r2]

\* C4: a failure is not cached: when no call is in progress and no session
\* exists, the component is Uninitialized (no in-flight reference is left),
\* so the next call starts a fresh acquisition.
C4_FailureNotCached ==
    (Quiescent /\ ~HasSession) => modelLoading = NoPromise

\* C5: when an acquisition fails, every caller waiting on it gets the error:
\* its promise is rejected (no waiter stays on a promise that never settles)
\* and a waiter on a rejected promise does not return a session.
C5_ErrorReachesWaiters ==
    /\ [](\A r \in Requests :
            (pc[r] \in {"await57", "await63"}
               /\ dl[awaiting[r]].phase \in {"failed", "stalled"})
            => Status(awaiting[r]) = "rejected")
    /\ [][\A r \in Requests :
            (pc[r] \in {"await57", "await63"}
               /\ Status(awaiting[r]) = "rejected")
            => pc'[r] \in {pc[r], "threw"}]_vars

\* C6: in a state where the promise of downloadModel is rejected, no file
\* exists at the cache path.
C6_NoFileOnReject ==
    \A p \in Promises : Status(p) = "rejected" => file = "absent"

\* C7: every existence check on the cache path that succeeded saw a
\* completely downloaded artifact.
C7_NoTruncatedObserved ==
    \A o \in observed : o.saw # "absent" => o.saw = "complete"

\* C8: a downloadModel call made while a file exists at the cache path
\* issues no fetch, leaves the file as it is and returns a resolved promise.
C8_CacheHitNoNetwork ==
    [][(Len(dl') = Len(dl) + 1 /\ file # "absent")
         => (/\ fetches' = fetches
             /\ file' = file
             /\ dl'[Len(dl')].phase = "hit")]_vars

\* A second downloadModel call hit the cache the first call filled.
C8_Witness ==
    /\ fetches = 1
    /\ \E p, q \in Promises :
         p < q /\ dl[p].phase = "finished" /\ dl[q].phase = "hit"

\* C9: once a session is published it is never replaced or cleared, and no
\* downloadModel call and no session construction happens after that.
C9_ReadyIsFinal ==
    [][HasSession
         => (/\ session' = session
             /\ creates' = creates
             /\ Len(dl') = Len(dl))]_vars

----------------------------------------------------------------------------
\* Properties of the Tensor Builder.

\* C10: the padded token sequence and the attention mask both have length
\* maxLength; the padded sequence is the input cut to its first maxLength
\* tokens, followed by pad ids when the input is shorter.
C10_ExactLength ==
    stage = "built" =>
        /\ Len(paddedTokens) = maxLength
        /\ Len(attentionMask) = maxLength
        /\ \A i \in 1..maxLength :
             paddedTokens[i] = IF i <= Len(inputTokens)
                               THEN inputTokens[i] ELSE 0

\* An input longer than maxLength has been built.
C10_Witness ==
    /\ stage = "built"
    /\ Len(inputTokens) > maxLength
    /\ Len(paddedTokens) = maxLength
\* C11: mask[i] is 0 exactly at the positions at or beyond the original
\* input length that hold the pad id; a position inside the original input
\* has mask 1 even when its token is the unknown id 0.
C11_MaskIffPadding ==
    stage = "built" =>
        \A i \in 1..maxLength :
            (attentionMask[i] = 0)
                <=> (paddedTokens[i] = PadId /\ i > Len(inputTokens))
----------------------------------------------------------------------------
\* Properties of the Decoder.

\* The number of positions the loop may scan: none when startIdx is at or
\* beyond maxLength.
DecodeLimit == Max(0, Min(maxNewTokens, maxLength - startIdx))

\* C12 as stated: the output length lies in
\* [0, min(maxNewTokens, maxLength - startPosition)].
C12_LengthBound ==
    stage = "decoded" =>
        Len(outputTokens) \in 0..Min(maxNewTokens, maxLength - startIdx)

\* C12, amended: the output length lies in
\* [0, max(0, min(maxNewTokens, maxLength - startPosition))], at every point
\* of the loop.
C12_LengthBoundClamped ==
    stage \in {"decoding", "decoded"} =>
        /\ Len(outputTokens) \in 0..DecodeLimit
        /\ Len(outputTokens) = loopI

\* The loop ran into its bound with a non-empty output.
C12_Witness ==
    /\ stage = "decoded"
    /\ Len(outputTokens) > 0
    /\ Len(outputTokens) = Min(maxNewTokens, maxLength - startIdx)

\* C13: the output holds neither 0 nor 2 and is the selected ids of the
\* positions startIdx, startIdx+1, ... before the first position whose
\* selected id is 0 or 2; when the scan ended before the length bounds, the
\* next position selects 0 or 2; with the end-of-sequence id selected at
\* startIdx the output is empty.
C13_StopToken ==
    stage = "decoded" =>
        /\ \A k \in 1..Len(outputTokens) :
             /\ outputTokens[k] \notin {0, 2}
             /\ outputTokens[k] = ArgMax(logits, startIdx + k - 1, vocabSize)
        /\ Len(outputTokens) < DecodeLimit
             => ArgMax(logits, startIdx + Len(outputTokens), vocabSize) \in {0, 2}
        /\ (startIdx < maxLength /\ ArgMax(logits, startIdx, vocabSize) = 2)
             => outputTokens = <<>>

\* The loop appended ids and then stopped on the end-of-sequence id.
C13_Witness ==
    /\ stage = "decoded"
    /\ Len(outputTokens) > 0
    /\ Len(outputTokens) < DecodeLimit
    /\ maxToken = 2

\* C19: the id selected at a position is below min(vocabSize, 10000), no
\* scanned id has a greater logit, and no lower scanned id has an equal one.
C19_ArgMaxCapped ==
    tokenPos >= 0 =>
        /\ maxToken < Min(vocabSize, 10000)
        /\ \A u \in 0..(Min(vocabSize, 10000) - 1) :
             /\ LogitAt(logits, tokenPos, u) <= LogitAt(logits, tokenPos, maxToken)
             /\ LogitAt(logits, tokenPos, u) = LogitAt(logits, tokenPos, maxToken)
                  => maxToken <= u

\* A position was scanned whose largest logit is at id 10000.
C19_Witness ==
    /\ tokenPos >= 0
    /\ vocabSize > 10000
    /\ logits.spike = 10000
    /\ maxToken < 10000
----------------------------------------------------------------------------
\* Properties of the POST and GET handlers.

\* C14: a GET answered before any POST arrived, with no artifact on disk,
\* reports model_cached false; a GET answered after a POST was answered 200
\* reports true; after a 200 the artifact stays on disk, complete.
C14_StatusScenario ==
    /\ []((\E r \in Requests : resp[r] = 200) => file = "complete")
    /\ [][Len(getLog') = Len(getLog) + 1 =>
            /\ ((\A r \in Requests : question[r] = "none") /\ file = "absent")
                 => getLog'[Len(getLog')] = FALSE
            /\ (\E r \in Requests : resp[r] = 200)
                 => getLog'[Len(getLog')] = TRUE]_vars

\* A GET before the first POST answered false, a GET after the successful
\* POST that fetched the artifact answered true.
C14_Witness ==
    /\ getLog = <<FALSE, TRUE>>
    /\ fetches = 1
    /\ \E r \in Requests : resp[r] = 200

\* C15: handling GET leaves the session, the in-flight reference, the
\* vocabulary cache, the cache file and all downloads and handlers as they
\* are: it starts no acquisition.
C15_StatusIsPureRead ==
    [][Len(getLog') = Len(getLog) + 1 =>
         /\ UNCHANGED <<session, modelLoading, vocabData, file, dl,
                        unlinkPending>>
         /\ UNCHANGED <<pc, awaiting, waitq, mq, creating, fetches, creates>>]_vars

\* A GET was answered while a download was writing the file.
C15_Witness ==
    /\ [by |-> "GET", saw |-> "partial"] \in observed
    /\ getLog # <<>>
    /\ \E p \in Promises : dl[p].phase \in {"bodyDirect", "bodyRedirect"}

\* C16: a POST whose question is missing or not a string is answered 400
\* without entering getSession, and the step that answers 400 starts no
\* download, constructs no session and leaves session, modelLoading and the
\* cache file unchanged.
C16_InvalidIs400 ==
    /\ [](\A r \in Requests :
            question[r] \in {"missing", "notString"}
               => (resp[r] = 400 /\ pc[r] = "idle" /\ run[r] = "none"))
    /\ [][\A r \in Requests :
            (resp[r] = 0 /\ resp'[r] = 400)
               => UNCHANGED <<session, modelLoading, file, dl, fetches,
                              creates, pc>>]_vars

\* A POST without a question was answered 400 while a download was in
\* flight.
C16_Witness ==
    /\ \E r \in Requests : question[r] = "missing" /\ resp[r] = 400
    /\ \E p \in Promises : Status(p) = "pending"

\* The request r has failed internally: getSession rejected, its model.run
\* failed, or it waits on a download that has failed.
FailedInternally(r) ==
    \/ pc[r] = "threw"
    \/ run[r] = "failed"
    \/ /\ pc[r] \in {"await57", "await63"}
       /\ dl[awaiting[r]].phase \in {"failed", "stalled"}

\* C17: an internal failure of a valid POST yields a 500 for that request
\* only and never a 200: a request that failed is answered 500 or its error
\* is on its way to the catch; a 200 carries the answer or the fallback text;
\* a request does not inherit the failure of an acquisition that had already
\* failed when the request arrived; nothing is retried within a request.
C17_FailureIs500 ==
    /\ [](\A r \in Requests :
            /\ FailedInternally(r) => resp[r] \in {0, 500}
            /\ (FailedInternally(r) /\ pc[r] \in {"await57", "await63"})
                 => Status(awaiting[r]) = "rejected"
            /\ resp[r] = 200
                 => (pc[r] = "returned" /\ answer[r] \in {"text", "fallback"}))
    /\ [][\A r \in Requests :
            /\ (pc[r] = "idle" /\ pc'[r] = "await57")
                 => Status(modelLoading) # "rejected"
            /\ pc[r] = "threw" => pc'[r] = "threw"
            /\ run[r] = "failed" => run'[r] = "failed"]_vars
----------------------------------------------------------------------------
\* Properties of the Tokenizer and the Answer Composer.

\* The word w lower-cased, character by character.
LowerWord(w) == [k \in 1..Len(w) |-> ToLower(w[k])]

\* The word is non-empty and made of lower-case word characters and listed
\* diacritic letters only: normalization leaves it as it is.
IsNormalWord(w) ==
    /\ w # <<>>
    /\ \A k \in 1..Len(w) : w[k] \in {"a", "s", "á"}

\* C18 as stated: for vocabulary words with unique ids, none structural,
\* detokenize(tokenize(words joined by spaces)) is the lower-cased words
\* joined by single spaces.
C18_RoundTrip ==
    stage = "detokenized" =>
        detok = Join([k \in 1..Len(words) |-> LowerWord(words[k])])

\* C18, amended: the round trip reproduces the words when every word is
\* already in normal form.
C18_RoundTripNormalWords ==
    (stage = "detokenized" /\ \A k \in 1..Len(words) : IsNormalWord(words[k]))
        => detok = Join(words)

\* Two different normal words, one with a diacritic letter, went round.
C18_Witness ==
    /\ stage = "detokenized"
    /\ Len(words) = 2
    /\ words[1] # words[2]
    /\ \A k \in 1..2 : IsNormalWord(words[k])
    /\ \E k \in 1..2 : words[k] = <<"á">>
    /\ detok = Join(words)
----------------------------------------------------------------------------
\* Liveness of session acquisition.

\* Handler r is inside getSession.
InGetSession(r) == pc[r] \in {"await57", "await63", "await67"}

\* C20: when fetches complete and constructions succeed, under fair
\* scheduling every getSession call in progress, whether it started the
\* acquisition or joined one in flight, eventually returns a session, and
\* modelLoading is null whenever no call is in progress.
C20_EventuallySession ==
    /\ \A r \in Requests :
         InGetSession(r) ~> (pc[r] = "returned" /\ result[r] # NoSession)
    /\ [](Quiescent => modelLoading = NoPromise)

\* A call that started a fetch and a call that joined it have both returned
\* a session, and modelLoading is null again.
C20_Witness ==
    /\ fetches = 1
    /\ \E r1, r2 \in Requests :
         /\ r1 \notin joined
         /\ r2 \in joined
         /\ pc[r1] = "returned" /\ result[r1] # NoSession
         /\ pc[r2] = "returned" /\ result[r2] # NoSession
    /\ Quiescent
    /\ modelLoading = NoPromise
====
